---- MODULE Spec2Model ----
(***************************************************************************)
(* Model of the blst-backed BLS signature wrapper (package blst):          *)
(* SignatureFromBytes, the Signature methods, AggregateSignatures,         *)
(* NewAggregateSignature and the batch verifier VerifyMultipleSignatures   *)
(* with its helper removeDuplicates.                                       *)
(*                                                                         *)
(* The pairing groups are modelled by their discrete logarithms: a point   *)
(* of G1 or G2 is a residue modulo GroupOrder, point addition is addition  *)
(* of residues, and the pairing of a G1 point a with a G2 point b is the   *)
(* product a*b, so e(S, G) == e(PK, H(m)) reads S == PK * H(m).            *)
(***************************************************************************)
EXTENDS Integers, Sequences, FiniteSets, TLC

\* ------------------------------------------------------------------ bounds
GroupOrder == 5
MaxLen == 3
NumKeys == 2
NumMsgs == 2
BLSSignatureLength == 2
ByteBase == 3
MaxObjs == 3
MaxArgs == 2

\* ------------------------------------------------------------- the groups
Points == 0 .. (GroupOrder - 1)
NoPoint == 0 - 1

PAdd(a, b) == (a + b) % GroupOrder
PMul(k, a) == (k * a) % GroupOrder

RECURSIVE SumPoints(_)
SumPoints(s) == IF s = <<>> THEN 0 ELSE PAdd(Head(s), SumPoints(Tail(s)))

\* Message byte strings are small integers; MockMsg stands for "mock".
MockMsg == 0
Msgs == 1 .. NumMsgs
HashToG2(m) == (m % (GroupOrder - 1)) + 1

\* ---------------------------------------------------------- the codec
Bytes == 0 .. (ByteBase - 1)

RECURSIVE BytesValue(_)
BytesValue(b) ==
    IF b = <<>> THEN 0
    ELSE BytesValue(SubSeq(b, 1, Len(b) - 1)) * ByteBase + b[Len(b)]

RECURSIVE ToBytes(_, _)
ToBytes(v, n) ==
    IF n = 0 THEN <<>> ELSE Append(ToBytes(v \div ByteBase, n - 1), v % ByteBase)

\* P2Affine.Compress: the fixed-length big-endian encoding of the point.
Compress(pt) == ToBytes(pt, BLSSignatureLength)

\* P2Affine.Uncompress: nil unless the bytes have the fixed length and encode
\* a point of the group.
Uncompress(b) ==
    IF Len(b) # BLSSignatureLength THEN NoPoint
    ELSE IF BytesValue(b) >= GroupOrder THEN NoPoint
    ELSE BytesValue(b)

\* P2Affine.BatchUncompress: nil (the empty sequence) as soon as one element
\* does not decode.
BatchUncompress(in) ==
    IF \E k \in 1 .. Len(in) : Uncompress(in[k]) = NoPoint THEN <<>>
    ELSE [k \in 1 .. Len(in) |-> Uncompress(in[k])]

BadSig == [k \in 1 .. BLSSignatureLength |-> ByteBase - 1]


\* ------------------------------------------------------------------ state
VARIABLES
    SkipBLSVerify,   \* featureconfig.Get().SkipBLSVerify
    pc,              \* position of the call in progress
    keyHeap,         \* the G1 point objects: address -> point
    sigHeap,         \* the G2 point objects: address -> point
    callerSigs,      \* the caller's three sequences
    callerMsgs,
    callerPubKeys,
    sigs,            \* the callee's parameters, reassigned at line 179
    msgs,
    pubKeys,
    rawSigs,
    mulP1Aff,
    mulP2Aff,
    rawMsgs,
    msgMap,
    repeatedSigs,
    i,
    rnd,             \* the scalars randFunc handed out, one per pairing term
    ret,
    err,
    sigObjs,         \* the Signature structs: address -> field s and origin
    lastOp           \* the Signature operation that just returned or panicked

vars == <<SkipBLSVerify, pc, keyHeap, sigHeap, callerSigs, callerMsgs,
          callerPubKeys, sigs, msgs, pubKeys, rawSigs, mulP1Aff, mulP2Aff,
          rawMsgs, msgMap, repeatedSigs, i, rnd, ret, err, sigObjs, lastOp>>

\* No Signature operation in progress.
NoOp ==
    [name |-> "none", recv |-> 0, bytes |-> <<>>, keys |-> <<>>, msgs |-> <<>>,
     sigs |-> <<>>, out |-> FALSE, obj |-> 0, outBytes |-> <<>>, error |-> "nil"]

SeqsUpTo(S, n) == UNION {[1 .. k -> S] : k \in 0 .. n}

\* The caller's public keys: one PublicKey object per key value.
CallerKeys == [a \in 1 .. NumKeys |-> a % GroupOrder]
\* The signature encodings a caller passes: every non-identity point and one
\* encoding that does not decode.
SigInputs == {Compress(pt) : pt \in 1 .. (GroupOrder - 1)} \cup {BadSig}

EmptyMap == [m \in Msgs |-> 0]

\* PublicKey.Equals: equality of the underlying points.
PublicKeyEquals(heap, a, b) == heap[a] = heap[b]

\* --------------------------------------------------------- removeDuplicates
RDInit ==
    [failed |-> FALSE, newSigs |-> <<>>, newMsgs |-> <<>>, newPubKeys |-> <<>>,
     msgMap |-> EmptyMap]

RDAppend(st, s, m, k) ==
    [st EXCEPT !.newSigs = Append(@, s), !.newMsgs = Append(@, m),
               !.newPubKeys = Append(@, k)]

\* RDStep with the conflict test inverted: entries differing in both key and
\* signature are rejected.
RDStep_RejectDistinct(st, heap, ss, ms, ks, n) ==
    IF st.failed THEN st
    ELSE IF st.msgMap[ms[n]] # 0 THEN
        LET indx == st.msgMap[ms[n]]
            pubkeyEqual == PublicKeyEquals(heap, st.newPubKeys[indx], ks[n])
            signatureEqual == st.newSigs[indx] = ss[n]
        IN  IF ~pubkeyEqual /\ ~signatureEqual
            THEN [st EXCEPT !.failed = TRUE]
            ELSE IF pubkeyEqual /\ signatureEqual THEN st
            ELSE RDAppend(st, ss[n], ms[n], ks[n])
    ELSE
        LET addedIdx == Len(st.newPubKeys) + 1
        IN  [RDAppend(st, ss[n], ms[n], ks[n]) EXCEPT !.msgMap[ms[n]] = addedIdx]

\* One iteration of the loop of removeDuplicates (indices are 1-based here,
\* 0 in msgMap means "not seen").
RDStep(st, heap, ss, ms, ks, n) ==
    IF st.failed THEN st
    ELSE IF st.msgMap[ms[n]] # 0 THEN
        LET indx == st.msgMap[ms[n]]
            pubkeyEqual == PublicKeyEquals(heap, st.newPubKeys[indx], ks[n])
            signatureEqual == st.newSigs[indx] = ss[n]
        IN  IF (pubkeyEqual /\ ~signatureEqual) \/ (~pubkeyEqual /\ signatureEqual)
            THEN [st EXCEPT !.failed = TRUE]
            ELSE IF pubkeyEqual /\ signatureEqual THEN st
            ELSE RDAppend(st, ss[n], ms[n], ks[n])
    ELSE
        LET addedIdx == Len(st.newPubKeys) + 1
        IN  [RDAppend(st, ss[n], ms[n], ks[n]) EXCEPT !.msgMap[ms[n]] = addedIdx]

RECURSIVE RDLoop(_, _, _, _, _, _)
RDLoop(st, heap, ss, ms, ks, n) ==
    IF n > Len(ss) THEN st
    ELSE RDLoop(RDStep(st, heap, ss, ms, ks, n), heap, ss, ms, ks, n + 1)

removeDuplicates(heap, ss, ms, ks) == RDLoop(RDInit, heap, ss, ms, ks, 1)

\* ------------------------------------------------ the coalescing scan
\* The locals of the scan of VerifyMultipleSignatures, as one record.
ScanInit(kh, sh) ==
    [keyHeap |-> kh, sigHeap |-> sh, mulP1Aff |-> <<>>, mulP2Aff |-> <<>>,
     rawMsgs |-> <<>>, msgMap |-> EmptyMap, repeatedSigs |-> 0]

\* ScanStep without the msgMap update of line 215.
ScanStep_NoMapUpdate(st, ms, ks, raw, n) ==
    LET npKey == Len(st.keyHeap) + 1
        nSig == Len(st.sigHeap) + 1
        kh1 == Append(st.keyHeap, st.keyHeap[ks[n]])
        sh1 == Append(st.sigHeap, st.sigHeap[raw[n]])
    IN  [st EXCEPT
            !.keyHeap = kh1,
            !.sigHeap = sh1,
            !.mulP1Aff = Append(@, npKey),
            !.mulP2Aff = Append(@, nSig),
            !.rawMsgs = Append(@, ms[n])]

\* ScanStep without the copies npKey and nSig: a slot starts as the entry's own
\* point and merging adds into the slot in place.
ScanStep_InPlace(st, ms, ks, raw, n) ==
    IF st.msgMap[ms[n]] # 0 THEN
        LET indx == st.msgMap[ms[n]]
            rep == [st EXCEPT !.repeatedSigs = @ + 1]
            slotKey == st.mulP1Aff[indx]
            slotSig == st.mulP2Aff[indx]
        IN  IF st.keyHeap[slotKey] = st.keyHeap[ks[n]]
               /\ st.sigHeap[slotSig] = st.sigHeap[raw[n]]
            THEN rep
            ELSE [rep EXCEPT
                    !.keyHeap[slotKey] = PAdd(st.keyHeap[slotKey], st.keyHeap[ks[n]]),
                    !.sigHeap[slotSig] = PAdd(st.sigHeap[slotSig], st.sigHeap[raw[n]])]
    ELSE
        [st EXCEPT
            !.mulP1Aff = Append(@, ks[n]),
            !.mulP2Aff = Append(@, raw[n]),
            !.rawMsgs = Append(@, ms[n]),
            !.msgMap[ms[n]] = Len(st.mulP1Aff) + 1]

\* One iteration of the loop at lines 193-216.  npKey and nSig are fresh
\* copies of the entry's points; af and as are fresh aggregates.
ScanStep(st, ms, ks, raw, n) ==
    LET npKey == Len(st.keyHeap) + 1
        nSig == Len(st.sigHeap) + 1
        kh1 == Append(st.keyHeap, st.keyHeap[ks[n]])
        sh1 == Append(st.sigHeap, st.sigHeap[raw[n]])
        copied == [st EXCEPT !.keyHeap = kh1, !.sigHeap = sh1]
    IN  IF st.msgMap[ms[n]] # 0 THEN
            LET indx == st.msgMap[ms[n]]
                rep == [copied EXCEPT !.repeatedSigs = @ + 1]
            IN  IF kh1[st.mulP1Aff[indx]] = kh1[npKey]
                   /\ sh1[st.mulP2Aff[indx]] = sh1[nSig]
                THEN rep
                ELSE
                    LET af == Len(kh1) + 1
                        as == Len(sh1) + 1
                    IN  [rep EXCEPT
                            !.keyHeap = Append(kh1, PAdd(kh1[st.mulP1Aff[indx]], kh1[npKey])),
                            !.sigHeap = Append(sh1, PAdd(sh1[st.mulP2Aff[indx]], sh1[nSig])),
                            !.mulP1Aff[indx] = af,
                            !.mulP2Aff[indx] = as]
        ELSE
            LET addedIdx == Len(st.mulP1Aff) + 1
            IN  [copied EXCEPT
                    !.mulP1Aff = Append(@, npKey),
                    !.mulP2Aff = Append(@, nSig),
                    !.rawMsgs = Append(@, ms[n]),
                    !.msgMap[ms[n]] = addedIdx]

RECURSIVE ScanLoop(_, _, _, _, _)
ScanLoop(st, ms, ks, raw, n) ==
    IF n > Len(raw) THEN st
    ELSE ScanLoop(ScanStep(st, ms, ks, raw, n), ms, ks, raw, n + 1)

\* blst's MultipleAggregateVerify: the random linear combination
\* e(sum r_k S_k, G) == prod e(r_k P_k, H(M_k)).  What the library answers
\* for no pairing term at all is not fixed by this package: emptyVerdict.
MultipleAggregateVerify(sh, kh, sAddrs, pAddrs, ms, r, emptyVerdict) ==
    IF Len(pAddrs) # Len(ms) \/ Len(pAddrs) # Len(sAddrs) THEN FALSE
    ELSE IF Len(ms) = 0 THEN emptyVerdict
    ELSE SumPoints([k \in 1 .. Len(ms) |-> PMul(r[k], sh[sAddrs[k]])])
         = SumPoints([k \in 1 .. Len(ms) |->
                        PMul(PMul(r[k], kh[pAddrs[k]]), HashToG2(ms[k]))])

\* ------------------------------------------------------------------ Init
\* A caller about to run VerifyMultipleSignatures on a batch.
InitBatch ==
    /\ SkipBLSVerify \in BOOLEAN
    /\ pc = "call"
    /\ sigObjs = <<>>
    /\ lastOp = NoOp
    /\ keyHeap = CallerKeys
    /\ sigHeap = <<>>
    /\ callerSigs \in SeqsUpTo(SigInputs, MaxLen)
    /\ callerMsgs \in SeqsUpTo(Msgs, MaxLen)
    /\ callerPubKeys \in SeqsUpTo(1 .. NumKeys, MaxLen)
    /\ sigs = callerSigs
    /\ msgs = callerMsgs
    /\ pubKeys = callerPubKeys
    /\ rawSigs = <<>>
    /\ mulP1Aff = <<>>
    /\ mulP2Aff = <<>>
    /\ rawMsgs = <<>>
    /\ msgMap = EmptyMap
    /\ repeatedSigs = 0
    /\ i = 1
    /\ rnd = <<>>
    /\ ret = FALSE
    /\ err = "nil"

\* A caller about to decode and use Signature values.
InitOps ==
    /\ SkipBLSVerify \in BOOLEAN
    /\ pc = "ops"
    /\ sigObjs = <<>>
    /\ lastOp = NoOp
    /\ keyHeap = CallerKeys
    /\ sigHeap = <<>>
    /\ callerSigs = <<>>
    /\ callerMsgs = <<>>
    /\ callerPubKeys = <<>>
    /\ sigs = <<>>
    /\ msgs = <<>>
    /\ pubKeys = <<>>
    /\ rawSigs = <<>>
    /\ mulP1Aff = <<>>
    /\ mulP2Aff = <<>>
    /\ rawMsgs = <<>>
    /\ msgMap = EmptyMap
    /\ repeatedSigs = 0
    /\ i = 1
    /\ rnd = <<>>
    /\ ret = FALSE
    /\ err = "nil"

Init == InitBatch \/ InitOps

ScanVars == <<keyHeap, sigHeap, mulP1Aff, mulP2Aff, rawMsgs, msgMap, repeatedSigs>>
CallerVars == <<callerSigs, callerMsgs, callerPubKeys>>

Return(r, e) ==
    /\ pc' = "done"
    /\ ret' = r
    /\ err' = e

\* VMS_Enter with the bypass tested after the input validation of lines 170-177.
VMS_Enter_ValidateFirst ==
    /\ pc = "call"
    /\ UNCHANGED <<SkipBLSVerify, CallerVars, mulP1Aff, mulP2Aff, rawMsgs,
                   msgMap, repeatedSigs, i, rnd, keyHeap, sigObjs, lastOp>>
    /\ UNCHANGED <<sigs, msgs, pubKeys, rawSigs, sigHeap>>
    /\ IF Len(sigs) = 0 \/ Len(pubKeys) = 0 THEN Return(FALSE, "nil")
       ELSE IF Len(sigs) # Len(pubKeys) \/ Len(sigs) # Len(msgs)
            THEN Return(FALSE, "length")
       ELSE Return(TRUE, "nil")

\* Lines 166-191: the bypass, input validation, removeDuplicates and
\* BatchUncompress.
VMS_Enter ==
    /\ pc = "call"
    /\ UNCHANGED <<SkipBLSVerify, CallerVars, mulP1Aff, mulP2Aff, rawMsgs,
                   msgMap, repeatedSigs, i, rnd, keyHeap, sigObjs, lastOp>>
    /\ IF SkipBLSVerify THEN
            /\ Return(TRUE, "nil")
            /\ UNCHANGED <<sigs, msgs, pubKeys, rawSigs, sigHeap>>
       ELSE IF Len(sigs) = 0 \/ Len(pubKeys) = 0 THEN
            /\ Return(FALSE, "nil")
            /\ UNCHANGED <<sigs, msgs, pubKeys, rawSigs, sigHeap>>
       ELSE IF Len(sigs) # Len(pubKeys) \/ Len(sigs) # Len(msgs) THEN
            /\ Return(FALSE, "length")
            /\ UNCHANGED <<sigs, msgs, pubKeys, rawSigs, sigHeap>>
       ELSE
            LET rd == removeDuplicates(keyHeap, sigs, msgs, pubKeys)
                pts == BatchUncompress(rd.newSigs)
            IN  IF rd.failed THEN
                    /\ Return(FALSE, "conflict")
                    /\ sigs' = <<>>
                    /\ msgs' = <<>>
                    /\ pubKeys' = <<>>
                    /\ UNCHANGED <<rawSigs, sigHeap>>
                ELSE
                    /\ sigs' = rd.newSigs
                    /\ msgs' = rd.newMsgs
                    /\ pubKeys' = rd.newPubKeys
                    /\ sigHeap' = sigHeap \o pts
                    /\ rawSigs' = [k \in 1 .. Len(pts) |-> Len(sigHeap) + k]
                    /\ pc' = "scan"
                    /\ UNCHANGED <<ret, err>>

CurScan ==
    [keyHeap |-> keyHeap, sigHeap |-> sigHeap, mulP1Aff |-> mulP1Aff,
     mulP2Aff |-> mulP2Aff, rawMsgs |-> rawMsgs, msgMap |-> msgMap,
     repeatedSigs |-> repeatedSigs]

\* Lines 193-216: one iteration of the coalescing scan.
VMS_ScanStep ==
    /\ pc = "scan"
    /\ i <= Len(rawSigs)
    /\ LET st == ScanStep(CurScan, msgs, pubKeys, rawSigs, i)
       IN  /\ keyHeap' = st.keyHeap
           /\ sigHeap' = st.sigHeap
           /\ mulP1Aff' = st.mulP1Aff
           /\ mulP2Aff' = st.mulP2Aff
           /\ rawMsgs' = st.rawMsgs
           /\ msgMap' = st.msgMap
           /\ repeatedSigs' = st.repeatedSigs
    /\ i' = i + 1
    /\ UNCHANGED <<SkipBLSVerify, pc, CallerVars, sigs, msgs, pubKeys, rawSigs,
                   rnd, ret, err, sigObjs, lastOp>>

\* VMS_Verify reporting a failed pairing check as an error.
VMS_Verify_ErrOnFail ==
    /\ pc = "scan"
    /\ i > Len(rawSigs)
    /\ \E r \in [1 .. Len(rawMsgs) -> Points], emptyVerdict \in BOOLEAN :
          /\ Len(rawMsgs) > 0 => emptyVerdict
          /\ rnd' = r
          /\ LET ok == MultipleAggregateVerify(sigHeap, keyHeap, mulP2Aff, mulP1Aff,
                                               rawMsgs, r, emptyVerdict)
             IN  Return(ok, IF ok THEN "nil" ELSE "verify")
    /\ UNCHANGED <<SkipBLSVerify, CallerVars, sigs, msgs, pubKeys, rawSigs,
                   ScanVars, i, sigObjs, lastOp>>

\* Lines 218-228: the random scalars and the combined pairing check.
VMS_Verify ==
    /\ pc = "scan"
    /\ i > Len(rawSigs)
    /\ \E r \in [1 .. Len(rawMsgs) -> Points], emptyVerdict \in BOOLEAN :
          /\ Len(rawMsgs) > 0 => emptyVerdict
          /\ rnd' = r
          /\ Return(MultipleAggregateVerify(sigHeap, keyHeap, mulP2Aff, mulP1Aff,
                                            rawMsgs, r, emptyVerdict), "nil")
    /\ UNCHANGED <<SkipBLSVerify, CallerVars, sigs, msgs, pubKeys, rawSigs,
                   ScanVars, i, sigObjs, lastOp>>

\* ------------------------------------------------ the Signature operations
BatchVars == <<keyHeap, sigHeap, callerSigs, callerMsgs, callerPubKeys, sigs, msgs,
               pubKeys, rawSigs, mulP1Aff, mulP2Aff, rawMsgs, msgMap, repeatedSigs,
               i, rnd, ret, err>>

\* &Signature{s: pt}, remembering the function that built it.
NewObj(pt, from) == [s |-> pt, from |-> from]

Returned(op) ==
    /\ pc' = "returned"
    /\ lastOp' = op
\* The operation dereferenced a nil point and the goroutine panicked.
Panicked(op) ==
    /\ pc' = "panic"
    /\ lastOp' = op
    /\ UNCHANGED sigObjs

\* SecretKey.Sign followed by Marshal, for the secret key behind public key k.
SignBytes(k, m) == Compress(PMul(CallerKeys[k], HashToG2(m)))

\* SignatureFromBytes without the length test of line 33.
SignatureFromBytes_NoLengthCheck(b) ==
    /\ pc = "ops"
    /\ Len(sigObjs) < MaxObjs
    /\ LET op == [NoOp EXCEPT !.name = "SignatureFromBytes", !.bytes = b]
           fresh == Len(sigObjs) + 1
       IN  IF SkipBLSVerify THEN
                /\ sigObjs' = Append(sigObjs, NewObj(NoPoint, "SignatureFromBytes"))
                /\ Returned([op EXCEPT !.obj = fresh])
           ELSE IF Uncompress(b) = NoPoint THEN
                /\ UNCHANGED sigObjs
                /\ Returned([op EXCEPT !.error = "unmarshal"])
           ELSE
                /\ sigObjs' = Append(sigObjs, NewObj(Uncompress(b), "SignatureFromBytes"))
                /\ Returned([op EXCEPT !.obj = fresh])
    /\ UNCHANGED <<SkipBLSVerify, BatchVars>>

\* Lines 29-41.
SignatureFromBytes(b) ==
    /\ pc = "ops"
    /\ Len(sigObjs) < MaxObjs
    /\ LET op == [NoOp EXCEPT !.name = "SignatureFromBytes", !.bytes = b]
           fresh == Len(sigObjs) + 1
       IN  IF SkipBLSVerify THEN
                /\ sigObjs' = Append(sigObjs, NewObj(NoPoint, "SignatureFromBytes"))
                /\ Returned([op EXCEPT !.obj = fresh])
           ELSE IF Len(b) # BLSSignatureLength THEN
                /\ UNCHANGED sigObjs
                /\ Returned([op EXCEPT !.error = "length"])
           ELSE IF Uncompress(b) = NoPoint THEN
                /\ UNCHANGED sigObjs
                /\ Returned([op EXCEPT !.error = "unmarshal"])
           ELSE
                /\ sigObjs' = Append(sigObjs, NewObj(Uncompress(b), "SignatureFromBytes"))
                /\ Returned([op EXCEPT !.obj = fresh])
    /\ UNCHANGED <<SkipBLSVerify, BatchVars>>

\* Lines 52-57.
Verify(a, k, m) ==
    /\ pc = "ops"
    /\ LET op == [NoOp EXCEPT !.name = "Verify", !.recv = a, !.keys = <<k>>,
                              !.msgs = <<m>>]
       IN  IF SkipBLSVerify THEN Returned([op EXCEPT !.out = TRUE])
           ELSE IF sigObjs[a].s = NoPoint THEN Panicked(op)
           ELSE Returned([op EXCEPT
                    !.out = (sigObjs[a].s = PMul(keyHeap[k], HashToG2(m)))])
    /\ UNCHANGED <<SkipBLSVerify, BatchVars, sigObjs>>

\* blst's AggregateVerify: e(S, G) == prod e(PK_k, H(m_k)).
BlstAggregateVerify(pt, ks, ms) ==
    /\ Len(ks) > 0
    /\ Len(ks) = Len(ms)
    /\ pt = SumPoints([k \in 1 .. Len(ks) |-> PMul(keyHeap[ks[k]], HashToG2(ms[k]))])

\* AggregateVerify without the size tests of lines 77-82.
AggregateVerify_NoSizeCheck(a, ks, ms) ==
    /\ pc = "ops"
    /\ LET op == [NoOp EXCEPT !.name = "AggregateVerify", !.recv = a, !.keys = ks,
                              !.msgs = ms]
       IN  IF SkipBLSVerify THEN Returned([op EXCEPT !.out = TRUE])
           ELSE IF sigObjs[a].s = NoPoint THEN Panicked(op)
           ELSE Returned([op EXCEPT !.out = BlstAggregateVerify(sigObjs[a].s, ks, ms)])
    /\ UNCHANGED <<SkipBLSVerify, BatchVars, sigObjs>>

\* Lines 72-90.
AggregateVerify(a, ks, ms) ==
    /\ pc = "ops"
    /\ LET op == [NoOp EXCEPT !.name = "AggregateVerify", !.recv = a, !.keys = ks,
                              !.msgs = ms]
           size == Len(ks)
       IN  IF SkipBLSVerify THEN Returned([op EXCEPT !.out = TRUE])
           ELSE IF size = 0 THEN Returned([op EXCEPT !.out = FALSE])
           ELSE IF size # Len(ms) THEN Returned([op EXCEPT !.out = FALSE])
           ELSE IF sigObjs[a].s = NoPoint THEN Panicked(op)
           ELSE Returned([op EXCEPT !.out = BlstAggregateVerify(sigObjs[a].s, ks, ms)])
    /\ UNCHANGED <<SkipBLSVerify, BatchVars, sigObjs>>

\* Lines 102-115.
FastAggregateVerify(a, ks, m) ==
    /\ pc = "ops"
    /\ LET op == [NoOp EXCEPT !.name = "FastAggregateVerify", !.recv = a,
                              !.keys = ks, !.msgs = <<m>>]
       IN  IF SkipBLSVerify THEN Returned([op EXCEPT !.out = TRUE])
           ELSE IF Len(ks) = 0 THEN Returned([op EXCEPT !.out = FALSE])
           ELSE IF sigObjs[a].s = NoPoint THEN Panicked(op)
           ELSE Returned([op EXCEPT
                    !.out = (sigObjs[a].s =
                                PMul(SumPoints([k \in 1 .. Len(ks) |-> keyHeap[ks[k]]]),
                                     HashToG2(m)))])
    /\ UNCHANGED <<SkipBLSVerify, BatchVars, sigObjs>>

\* Lines 118-121.
NewAggregateSignature ==
    /\ pc = "ops"
    /\ Len(sigObjs) < MaxObjs
    /\ sigObjs' = Append(sigObjs, NewObj(HashToG2(MockMsg), "NewAggregateSignature"))
    /\ Returned([NoOp EXCEPT !.name = "NewAggregateSignature",
                             !.obj = Len(sigObjs) + 1])
    /\ UNCHANGED <<SkipBLSVerify, BatchVars>>

\* Lines 124-142.
AggregateSignatures(ss) ==
    /\ pc = "ops"
    /\ Len(sigObjs) < MaxObjs
    /\ LET op == [NoOp EXCEPT !.name = "AggregateSignatures", !.sigs = ss]
           rawSigsOf == [k \in 1 .. Len(ss) |-> sigObjs[ss[k]].s]
       IN  IF Len(ss) = 0 THEN
                /\ UNCHANGED sigObjs
                /\ Returned(op)
           ELSE IF SkipBLSVerify THEN
                /\ UNCHANGED sigObjs
                /\ Returned([op EXCEPT !.obj = ss[1]])
           ELSE IF \E k \in 1 .. Len(ss) : rawSigsOf[k] = NoPoint THEN
                Panicked(op)
           ELSE
                /\ sigObjs' = Append(sigObjs,
                                     NewObj(SumPoints(rawSigsOf), "AggregateSignatures"))
                /\ Returned([op EXCEPT !.obj = Len(sigObjs) + 1])
    /\ UNCHANGED <<SkipBLSVerify, BatchVars>>

\* Lines 232-238.
Marshal(a) ==
    /\ pc = "ops"
    /\ LET op == [NoOp EXCEPT !.name = "Marshal", !.recv = a]
       IN  IF SkipBLSVerify THEN
                Returned([op EXCEPT !.outBytes = [k \in 1 .. BLSSignatureLength |-> 0]])
           ELSE IF sigObjs[a].s = NoPoint THEN Panicked(op)
           ELSE Returned([op EXCEPT !.outBytes = Compress(sigObjs[a].s)])
    /\ UNCHANGED <<SkipBLSVerify, BatchVars, sigObjs>>

\* Lines 241-244: no bypass test, the point is always dereferenced.
Copy(a) ==
    /\ pc = "ops"
    /\ Len(sigObjs) < MaxObjs
    /\ LET op == [NoOp EXCEPT !.name = "Copy", !.recv = a]
       IN  IF sigObjs[a].s = NoPoint THEN Panicked(op)
           ELSE /\ sigObjs' = Append(sigObjs, NewObj(sigObjs[a].s, "Copy"))
                /\ Returned([op EXCEPT !.obj = Len(sigObjs) + 1])
    /\ UNCHANGED <<SkipBLSVerify, BatchVars>>

\* The feature-flag provider switches the bypass between two operations.
SetSkipBLSVerify ==
    /\ pc = "ops"
    /\ SkipBLSVerify' = ~SkipBLSVerify
    /\ UNCHANGED <<pc, BatchVars, sigObjs, lastOp>>

\* The caller takes the result and goes on to its next operation.
NextOperation ==
    /\ pc = "returned"
    /\ pc' = "ops"
    /\ lastOp' = NoOp
    /\ UNCHANGED <<SkipBLSVerify, BatchVars, sigObjs>>

ObjAddrs == 1 .. Len(sigObjs)
KeyArgs == SeqsUpTo(1 .. NumKeys, MaxArgs)
MsgArgs == SeqsUpTo(Msgs, MaxArgs)
ByteArgs == SeqsUpTo(Bytes, BLSSignatureLength + 1)

Next ==
    \/ VMS_Enter
    \/ VMS_ScanStep
    \/ VMS_Verify
    \/ \E b \in ByteArgs : SignatureFromBytes(b)
    \/ \E a \in ObjAddrs, k \in 1 .. NumKeys, m \in Msgs : Verify(a, k, m)
    \/ \E a \in ObjAddrs, ks \in KeyArgs, ms \in MsgArgs : AggregateVerify(a, ks, ms)
    \/ \E a \in ObjAddrs, ks \in KeyArgs, m \in Msgs : FastAggregateVerify(a, ks, m)
    \/ NewAggregateSignature
    \/ \E ss \in SeqsUpTo(ObjAddrs, MaxArgs) : AggregateSignatures(ss)
    \/ \E a \in ObjAddrs : Marshal(a)
    \/ \E a \in ObjAddrs : Copy(a)
    \/ SetSkipBLSVerify
    \/ NextOperation

Spec == Init /\ [][Next]_vars


\* ---------------------------------------------------------------------
\* VerifyMultipleSignatures as a function of its inputs (bypass off), the
\* scalars r it draws and the library's verdict on an empty batch.
VerifyMultipleSignatures(kh, ss, ms, ks, r, emptyVerdict) ==
    IF Len(ss) = 0 \/ Len(ks) = 0 THEN
        [ret |-> FALSE, err |-> "nil", keys |-> <<>>, sigs |-> <<>>, msgs |-> <<>>]
    ELSE IF Len(ss) # Len(ks) \/ Len(ss) # Len(ms) THEN
        [ret |-> FALSE, err |-> "length", keys |-> <<>>, sigs |-> <<>>, msgs |-> <<>>]
    ELSE
        LET rd == removeDuplicates(kh, ss, ms, ks)
            pts == BatchUncompress(rd.newSigs)
            raw == [k \in 1 .. Len(pts) |-> k]
            st == ScanLoop(ScanInit(kh, pts), rd.newMsgs, rd.newPubKeys, raw, 1)
        IN  IF rd.failed THEN
                [ret |-> FALSE, err |-> "conflict", keys |-> <<>>, sigs |-> <<>>,
                 msgs |-> <<>>]
            ELSE
                [ret |-> MultipleAggregateVerify(st.sigHeap, st.keyHeap, st.mulP2Aff,
                                                 st.mulP1Aff, st.rawMsgs, r, emptyVerdict),
                 err |-> "nil",
                 keys |-> [k \in 1 .. Len(st.mulP1Aff) |-> st.keyHeap[st.mulP1Aff[k]]],
                 sigs |-> [k \in 1 .. Len(st.mulP2Aff) |-> st.sigHeap[st.mulP2Aff[k]]],
                 msgs |-> st.rawMsgs]

\* =====================================================================
\* Properties
\* =====================================================================
BatchDone == pc = "done"
LengthsEqualNonZero ==
    /\ Len(callerSigs) > 0
    /\ Len(callerSigs) = Len(callerMsgs)
    /\ Len(callerSigs) = Len(callerPubKeys)
LengthsDiffer ==
    Len(callerSigs) # Len(callerMsgs) \/ Len(callerSigs) # Len(callerPubKeys)

KeyOf(k) == keyHeap[callerPubKeys[k]]
SameTriple(a, b) ==
    /\ callerMsgs[a] = callerMsgs[b]
    /\ KeyOf(a) = KeyOf(b)
    /\ callerSigs[a] = callerSigs[b]
\* Same message, exactly one of {public key, signature bytes} equal.
ConflictingPair(a, b) ==
    /\ callerMsgs[a] = callerMsgs[b]
    /\ (KeyOf(a) = KeyOf(b)) # (callerSigs[a] = callerSigs[b])
HasConflictingPair ==
    \E a, b \in 1 .. Len(callerSigs) : a < b /\ ConflictingPair(a, b)

\* The slots the call in progress holds, as values.
SlotKeys == [k \in 1 .. Len(mulP1Aff) |-> keyHeap[mulP1Aff[k]]]
SlotSigs == [k \in 1 .. Len(mulP2Aff) |-> sigHeap[mulP2Aff[k]]]

\* The triple at position k verifies on its own.
TripleVerifies(k) ==
    /\ Uncompress(callerSigs[k]) # NoPoint
    /\ Uncompress(callerSigs[k]) = PMul(KeyOf(k), HashToG2(callerMsgs[k]))

\* C1: with the bypass off and equal non-zero lengths, a batch holding any two
\* entries with the same message and exactly one of {key, signature} equal
\* returns (false, error), whichever positions the two entries have.
C1_ConflictingPairRejected ==
    (BatchDone /\ ~SkipBLSVerify /\ LengthsEqualNonZero /\ HasConflictingPair)
        => (ret = FALSE /\ err # "nil")

\* The batch without its entry at position j.
Without(s, j) == [k \in 1 .. (Len(s) - 1) |-> IF k < j THEN s[k] ELSE s[k + 1]]

\* C2: a later copy of an entry already in the batch is dropped: the slots
\* and the returned (result, error) equal those of the batch without the copy.
C2_CopyDropped ==
    (BatchDone /\ ~SkipBLSVerify /\ LengthsEqualNonZero) =>
        \A j \in 2 .. Len(callerSigs) :
            (\E a \in 1 .. (j - 1) : SameTriple(a, j)) =>
                LET o == VerifyMultipleSignatures(CallerKeys, Without(callerSigs, j),
                            Without(callerMsgs, j), Without(callerPubKeys, j), rnd, ret)
                IN  /\ o.ret = ret
                    /\ o.err = err
                    /\ o.keys = SlotKeys
                    /\ o.sigs = SlotSigs
                    /\ o.msgs = rawMsgs

\* C3: bypass off: all three sequences empty gives (false, nil); lengths not
\* all equal gives (false, error), also when one of the sequences is empty.
C3_InputValidation ==
    (BatchDone /\ ~SkipBLSVerify) =>
        /\ (Len(callerSigs) = 0 /\ Len(callerMsgs) = 0 /\ Len(callerPubKeys) = 0)
                => (ret = FALSE /\ err = "nil")
        /\ LengthsDiffer => (ret = FALSE /\ err # "nil")

PairingEquationHolds ==
    SumPoints([k \in 1 .. Len(rawMsgs) |-> PMul(rnd[k], SlotSigs[k])])
    = SumPoints([k \in 1 .. Len(rawMsgs) |->
                    PMul(PMul(rnd[k], SlotKeys[k]), HashToG2(rawMsgs[k]))])

\* C4: an error is returned only for a structural problem (lengths differ, a
\* conflicting duplicate) and always together with false; a batch that passes
\* the structural checks (its slots were built) and fails the pairing check
\* returns (false, nil).
C4_ErrorsOnlyStructural ==
    BatchDone =>
        /\ err # "nil" => (ret = FALSE /\ (LengthsDiffer \/ HasConflictingPair))
        /\ err = "length" => LengthsDiffer
        /\ err = "conflict" => HasConflictingPair
        /\ (~SkipBLSVerify /\ LengthsEqualNonZero /\ ~PairingEquationHolds)
                => (ret = FALSE /\ err = "nil")
C4_Witness ==
    /\ BatchDone /\ ~SkipBLSVerify /\ LengthsEqualNonZero
    /\ Len(rawMsgs) = 2 /\ ~PairingEquationHolds /\ ret = FALSE /\ err = "nil"

\* C5: at every step of the scan the three slot arrays have one length, no two
\* slots hold the same message, the map points each seen message at its slot,
\* and the number of slots is the number of distinct messages scanned.
C5_ScanInvariant ==
    pc \in {"scan", "done"} =>
        LET seen == {msgs[k] : k \in 1 .. (i - 1)}
        IN  /\ Len(mulP1Aff) = Len(rawMsgs)
            /\ Len(mulP2Aff) = Len(rawMsgs)
            /\ \A a, b \in 1 .. Len(rawMsgs) : a # b => rawMsgs[a] # rawMsgs[b]
            /\ \A m \in Msgs :
                    /\ (msgMap[m] # 0) <=> (m \in seen)
                    /\ msgMap[m] # 0 =>
                            (msgMap[m] \in 1 .. Len(rawMsgs) /\ rawMsgs[msgMap[m]] = m)
            /\ Len(rawMsgs) = Cardinality(seen)
C5_Witness ==
    /\ pc = "scan" /\ i > Len(rawSigs)
    /\ Len(rawSigs) = 3 /\ Len(rawMsgs) = 2 /\ repeatedSigs = 1

\* C10: a batch of equal non-zero lengths in which every triple verifies on
\* its own returns (true, nil), whatever scalars are drawn.
C10_Completeness ==
    (BatchDone /\ ~SkipBLSVerify /\ LengthsEqualNonZero
        /\ \A k \in 1 .. Len(callerSigs) : TripleVerifies(k))
        => (ret = TRUE /\ err = "nil")
C10_Witness ==
    /\ BatchDone /\ ~SkipBLSVerify /\ LengthsEqualNonZero
    /\ \A k \in 1 .. Len(callerSigs) : TripleVerifies(k)
    /\ Len(callerSigs) = 3 /\ Len(rawMsgs) = 1 /\ repeatedSigs = 2
    /\ Len(keyHeap) > NumKeys + 3
    /\ \E k \in 1 .. Len(rnd) : rnd[k] = 0


\* ------------------------------------------------- Signature operations
OpReturned(name) == pc = "returned" /\ lastOp.name = name

\* C6: NewAggregateSignature is the identity of aggregation: aggregating it
\* with a signature x gives a signature with the encoding of x.
C6_NewAggregateIsIdentity ==
    (/\ OpReturned("AggregateSignatures")
     /\ ~SkipBLSVerify
     /\ Len(lastOp.sigs) = 2
     /\ sigObjs[lastOp.sigs[1]].from = "NewAggregateSignature")
        => /\ lastOp.obj # 0
           /\ Compress(sigObjs[lastOp.obj].s) = Compress(sigObjs[lastOp.sigs[2]].s)

WellFormed(b) == Len(b) = BLSSignatureLength /\ Uncompress(b) # NoPoint

DecodeContract ==
    LET b == lastOp.bytes
    IN  /\ (lastOp.obj # 0) <=> WellFormed(b)
        /\ WellFormed(b) =>
                /\ lastOp.error = "nil"
                /\ lastOp.obj = Len(sigObjs)
                /\ sigObjs[lastOp.obj].s = BytesValue(b)
                /\ Compress(sigObjs[lastOp.obj].s) = b
        /\ ~WellFormed(b) => lastOp.error # "nil"
        /\ Len(b) # BLSSignatureLength => lastOp.error = "length"
        /\ (Len(b) = BLSSignatureLength /\ ~WellFormed(b)) => lastOp.error = "unmarshal"
        /\ \A k \in 1 .. NumKeys, m \in Msgs :
                b = SignBytes(k, m) => (lastOp.obj # 0 /\ lastOp.error = "nil")

BadAggregateVerifyArgs ==
    /\ lastOp.name = "AggregateVerify"
    /\ (Len(lastOp.keys) = 0 \/ Len(lastOp.keys) # Len(lastOp.msgs))
BadFastAggregateVerifyArgs ==
    /\ lastOp.name = "FastAggregateVerify"
    /\ Len(lastOp.keys) = 0

\* C8 as claimed: AggregateVerify with no key or with lengths that differ,
\* and FastAggregateVerify with no key, return false and nothing else.
C8_BadArgsGiveFalse ==
    (pc \in {"returned", "panic"}
        /\ (BadAggregateVerifyArgs \/ BadFastAggregateVerifyArgs))
        => (pc = "returned" /\ lastOp.out = FALSE)

\* C8 as amended: the same while SkipBLSVerify is off; while it is set both
\* return true for these arguments.
C8_BadArgsGiveFalseWhenBypassOff ==
    (pc \in {"returned", "panic"}
        /\ (BadAggregateVerifyArgs \/ BadFastAggregateVerifyArgs))
        => (pc = "returned" /\ lastOp.out = SkipBLSVerify)
C8_Witness ==
    /\ pc = "returned" /\ ~SkipBLSVerify
    /\ BadAggregateVerifyArgs
    /\ Len(lastOp.keys) = 1 /\ Len(lastOp.msgs) = 2
    /\ sigObjs[lastOp.recv].s = NoPoint
    /\ lastOp.out = FALSE

\* C9: no step of VerifyMultipleSignatures or AggregateSignatures changes the
\* caller's sequences, an input public key or an existing Signature; merging
\* writes only to points allocated during the call.
FrameKept ==
    /\ callerSigs' = callerSigs
    /\ callerMsgs' = callerMsgs
    /\ callerPubKeys' = callerPubKeys
    /\ \A a \in 1 .. NumKeys : keyHeap'[a] = keyHeap[a]
    /\ \A a \in 1 .. Len(sigObjs) : Len(sigObjs') >= a /\ sigObjs'[a] = sigObjs[a]
    /\ (pc = "scan" /\ pc' = "scan") =>
            \A a \in 1 .. Len(rawSigs) : sigHeap'[rawSigs[a]] = sigHeap[rawSigs[a]]
C9_InputsUnchanged == [][FrameKept]_vars
C9_Witness ==
    /\ pc = "done" /\ ~SkipBLSVerify
    /\ repeatedSigs = 2
    /\ Len(keyHeap) = NumKeys + 3 + 2
    /\ SlotKeys # <<KeyOf(1)>>


\* ------------------------------------------------------------ soundness
NonZeroScalars == 1 .. (GroupOrder - 1)

\* The finished call returns true whichever non-zero scalars it draws.
AcceptsForAllNonZero ==
    \A r \in [1 .. Len(rawMsgs) -> NonZeroScalars] :
        LET o == VerifyMultipleSignatures(CallerKeys, callerSigs, callerMsgs,
                                          callerPubKeys, r, ret)
        IN  o.ret = TRUE /\ o.err = "nil"

AllDecode == \A k \in 1 .. Len(callerSigs) : Uncompress(callerSigs[k]) # NoPoint

\* C11: no acceptance by cancellation: a batch (bypass off, every signature
\* decodes) that is accepted for every choice of non-zero scalars has only
\* triples that verify on their own, also when entries share a message.
C11_NoCancellation ==
    (BatchDone /\ ~SkipBLSVerify /\ LengthsEqualNonZero /\ AllDecode
        /\ AcceptsForAllNonZero)
        => \A k \in 1 .. Len(callerSigs) : TripleVerifies(k)

\* ------------------------------------------------------------- the bypass
BoolOps == {"Verify", "AggregateVerify", "FastAggregateVerify"}

\* C12: while SkipBLSVerify is set the three verifications return true and
\* VerifyMultipleSignatures returns (true, nil) for every input; in both modes
\* AggregateSignatures returns nil for an empty input, and in bypass mode it
\* returns its first input itself.
C12_BypassBeforeValidation ==
    /\ (BatchDone /\ SkipBLSVerify) => (ret = TRUE /\ err = "nil")
    /\ (pc \in {"returned", "panic"} /\ SkipBLSVerify /\ lastOp.name \in BoolOps)
            => (pc = "returned" /\ lastOp.out = TRUE)
    /\ (pc \in {"returned", "panic"} /\ lastOp.name = "AggregateSignatures") =>
            /\ Len(lastOp.sigs) = 0 => (pc = "returned" /\ lastOp.obj = 0)
            /\ (SkipBLSVerify /\ Len(lastOp.sigs) > 0) =>
                    /\ pc = "returned"
                    /\ lastOp.obj = lastOp.sigs[1]
C12_Witness ==
    /\ BatchDone /\ SkipBLSVerify
    /\ Len(callerSigs) = 0 /\ Len(callerMsgs) = 1 /\ Len(callerPubKeys) = 2
    /\ ret = TRUE /\ err = "nil"

\* ---------------------------------------------------------- nil points
\* The Signature values the operation in lastOp was applied to.
OperandsOf(op) ==
    (IF op.recv # 0 THEN {op.recv} ELSE {}) \cup {op.sigs[k] : k \in 1 .. Len(op.sigs)}

\* C13: no operation applied to Signature values that SignatureFromBytes
\* returned without error dereferences a Signature holding no point.
C13_NoNilDereference ==
    ~(/\ pc = "panic"
      /\ \A a \in OperandsOf(lastOp) : sigObjs[a].from = "SignatureFromBytes")

====
